---- MODULE Spec2Model ----
(***************************************************************************)
(* hahaha: the reconciliation loop of main.rs and the shutdown dispatch of *)
(* api.rs, with the action table of actions.rs and the counters of         *)
(* prometheus.rs.                                                          *)
(*                                                                         *)
(* The reconciliation task is one sequential process.  Its position is pc: *)
(*   "watch"    awaiting ew.try_next()                       (main.rs:52)  *)
(*   "for"      at the head of `for sidecar in running_sidecars` (:84)     *)
(*   "shutdown" awaiting api.shutdown(...)                       (:94)     *)
(*   "result"   api.shutdown returned, res holds its Result      (:95)     *)
(*   "ended"    the stream returned None, the loop was left      (:119)    *)
(*   "failed"   the stream returned Err, `?` left main           (:52)     *)
(*   "join"     shutdown.notify_one() done, awaiting prom        (:120-121)*)
(*   "exited"   main has returned and the runtime is gone                  *)
(*                                                                         *)
(* Spec is the reconciliation task alone, up to the end of its loop.       *)
(* SpecTasks adds what runs beside it: the metrics task spawned at         *)
(* main.rs:48, the requests it serves, the connection drivers spawned at   *)
(* api.rs:72, and the way main returns.                                    *)
(***************************************************************************)
EXTENDS Integers, Sequences, FiniteSets, TLC

\* ---------------------------------------------------------------- bounds
\* Number of container statuses the watch stream delivers in one behaviour,
\* summed over all the pod snapshots it yields.
MaxStatuses == 3
\* The same number for SpecTasks, where the other tasks interleave.
MaxTaskStatuses == 1

\* ------------------------------------------------------- values and types
None == "<none>"

\* Rust's Result<(), anyhow::Error>: Ok(()), or Err with its display text.
Ok == [ok |-> TRUE, err |-> ""]
Err(detail) == [ok |-> FALSE, err |-> detail]

\* The slot of an action that has not been looked up.
NoAction ==
  [action_type |-> None, method |-> None, path |-> None, port |-> 0, command |-> None]

\* actions.rs: the action table.  api.rs reads an action through
\* action_type, command, method, path and port.
generate ==
  [name \in {"cloudsql-proxy", "vks-sidecar", "istio-proxy", "linkerd-proxy"} |->
     CASE name = "cloudsql-proxy" ->
            [action_type |-> "Portforward", method |-> "POST",
             path |-> "/quitquitquit", port |-> 9091, command |-> None]
       [] name = "vks-sidecar" ->
            [action_type |-> "Exec", method |-> None, path |-> None, port |-> 0,
             command |-> "/bin/kill -s INT 1"]
       [] name = "istio-proxy" ->
            [action_type |-> "Portforward", method |-> "POST",
             path |-> "/quitquitquit", port |-> 15000, command |-> None]
       [] name = "linkerd-proxy" ->
            [action_type |-> "Portforward", method |-> "POST",
             path |-> "/shutdown", port |-> 4191, command |-> None]]

actions == generate

\* A lookup that falls back to a default action for a name the table lacks.
actions_get_with_default(name) ==
  IF name \in DOMAIN actions
  THEN [some |-> TRUE, value |-> actions[name]]
  ELSE [some |-> TRUE, value |-> actions["istio-proxy"]]

\* BTreeMap::get (main.rs:87): Some(action) for a key of the table, else None.
actions_get(name) ==
  IF name \in DOMAIN actions
  THEN [some |-> TRUE, value |-> actions[name]]
  ELSE [some |-> FALSE, value |-> NoAction]

\* ------------------------------------------------- the watched pod snapshots
\* Container names the modelled cluster reports: two keys of the table, one
\* of each transport, and one name the table does not know.
ContainerNames == {"istio-proxy", "vks-sidecar", "unknown-sidecar"}
ContainerStates == {"running", "terminated"}
ContainerStatus == [name : ContainerNames, state : ContainerStates]

RECURSIVE SeqsUpTo(_, _)
SeqsUpTo(S, n) ==
  IF n = 0 THEN {<<>>}
  ELSE LET shorter == SeqsUpTo(S, n - 1)
       IN  shorter \cup {Append(s, x) : s \in {t \in shorter : Len(t) = n - 1}, x \in S}

\* A pod snapshot: name, optional namespace, optional owning job, and the
\* container statuses (has_status is FALSE when the snapshot carries none).
PodsWith(n) ==
  [name : {"job-7-abcde"},
   namespace : {None, "ns"},
   job : {None, "job-7"},
   has_status : {TRUE},
   container_statuses : SeqsUpTo(ContainerStatus, n)]
  \cup
  [name : {"job-7-abcde"},
   namespace : {None, "ns"},
   job : {None, "job-7"},
   has_status : {FALSE},
   container_statuses : {<<>>}]

NoPod ==
  [name |-> None, namespace |-> None, job |-> None, has_status |-> FALSE,
   container_statuses |-> <<>>]

\* pod.rs, Sidecars::sidecars: the running containers of the snapshot in the
\* order the pod reports them; an error when the snapshot has no statuses.
RECURSIVE SelectRunning(_)
SelectRunning(statuses) ==
  IF statuses = <<>> THEN <<>>
  ELSE IF Head(statuses).state = "running"
       THEN <<Head(statuses)>> \o SelectRunning(Tail(statuses))
       ELSE SelectRunning(Tail(statuses))

sidecars(p) ==
  IF ~p.has_status
  THEN [ok |-> FALSE, err |-> "no container statuses", value |-> <<>>]
  ELSE [ok |-> TRUE, err |-> "", value |-> SelectRunning(p.container_statuses)]

\* pod.rs, job_name: the name of the owning job, an error when there is none.
pod_job_name(p) ==
  IF p.job = None
  THEN [ok |-> FALSE, err |-> "no job name", value |-> None]
  ELSE [ok |-> TRUE, err |-> "", value |-> p.job]

\* The namespace of the snapshot as it is, absent or not.
pod_namespace_as_is(p) == p.namespace

\* main.rs:64-67
pod_namespace(p) == IF p.namespace # None THEN p.namespace ELSE "default"

\* main.rs:55-58: unwrap_or_else(|err| Vec::new())
running_of(p) == IF sidecars(p).ok THEN sidecars(p).value ELSE <<>>

\* --------------------------------------------------- what the cluster answers
\* The cluster's answer to one exec call (api.rs:42-49): the call returns Ok
\* or a transport error; exit is the remote command's own exit status.
ExecEnvs ==
  {[exec |-> TRUE, exit |-> 0], [exec |-> TRUE, exit |-> 1], [exec |-> FALSE, exit |-> 0]}

\* The cluster's answer to one port-forward dispatch (api.rs:66-101), in the
\* order the code meets it: the tunnel, the handshake, the request, the
\* response status and, for a status other than 200, the reading of the body
\* ("ok", "io" for a read error, "utf8" for bytes that are not UTF-8).
Statuses == {200, 503}
PfEnv(tunnel, handshake, send, status, body) ==
  [portforward |-> tunnel, handshake |-> handshake, send |-> send,
   status |-> status, body |-> body]
PfEnvs ==
  {PfEnv(FALSE, FALSE, FALSE, 0, "ok"),
   PfEnv(TRUE, FALSE, FALSE, 0, "ok"),
   PfEnv(TRUE, TRUE, FALSE, 0, "ok"),
   PfEnv(TRUE, TRUE, TRUE, 200, "ok")}
  \cup {PfEnv(TRUE, TRUE, TRUE, 503, b) : b \in {"ok", "io", "utf8"}}

NoEnv == [transport |-> None]

\* ------------------------------------------------------------- the dispatch
\* api.rs:40-64.  The error of the exec call is logged and dropped (:56-61);
\* the function returns Ok(()) on both arms (:63).
shutdown_exec(action, env) == Ok

\* api.rs:66-101.  `?` returns the error of the tunnel (:68), the handshake
\* (:71), the request (:85), the body read (:87) and the UTF-8 check (:88);
\* a status other than 200 is logged (:89) and the function returns Ok(()).
shutdown_portforward(action, env) ==
  IF ~env.portforward THEN Err("portforward: tunnel failed")
  ELSE IF ~env.handshake THEN Err("handshake failed")
  ELSE IF ~env.send THEN Err("send_request failed")
  ELSE IF env.status # 200
       THEN IF env.body = "io" THEN Err("reading the body failed")
            ELSE IF env.body = "utf8" THEN Err("invalid utf-8")
            ELSE Ok
       ELSE Ok

\* api.rs:28-35, Destroyer::shutdown: the arm of the action type, its error
\* propagated by `?`, else Ok(()).
shutdown(action, env) ==
  CASE action.action_type = "Exec" -> shutdown_exec(action, env)
    [] action.action_type = "Portforward" -> shutdown_portforward(action, env)
    [] OTHER -> Ok

\* The answers the cluster can give to the dispatch of an action.
EnvsFor(action) ==
  CASE action.action_type = "Exec" -> ExecEnvs
    [] action.action_type = "Portforward" -> PfEnvs
    [] OTHER -> {NoEnv}

\* ------------------------------------------------------------------ state
VARIABLES
  pc,                 \* position of the reconciliation task
  remaining,          \* container statuses the stream may still deliver
  pod,                \* the snapshot taken from the stream (main.rs:52)
  running_sidecars,   \* the sidecars the for loop has not reached yet (:84)
  namespace,          \* main.rs:64
  job_name,           \* main.rs:76
  sidecar_name,       \* main.rs:85
  action,             \* main.rs:87
  res,                \* main.rs:94
  SIDECAR_SHUTDOWNS,              \* prometheus.rs:8
  FAILED_SIDECAR_SHUTDOWNS,       \* prometheus.rs:14
  TOTAL_UNSUCCESSFUL_EVENT_POSTS, \* prometheus.rs:20
  UNSUPPORTED_SIDECARS,           \* prometheus.rs:25
  podlog,             \* what was done for each sidecar of the current pod
  pre,                \* the counters when the current sidecar was taken
  prePod,             \* the counters when the current pod was taken
  main_ret,           \* what main returned (main.rs:24), None while it runs
  info_published,     \* informational events published so far (:109)
  prom,               \* the metrics task (main.rs:48-50)
  notify_state,       \* the Notify `shutdown` (main.rs:46)
  signal,             \* the future shutdown_clone.notified() has completed
  scrape_floor,       \* the counters when the request in service arrived
  report              \* the counters of the last response (prometheus.rs:34)

locals == <<pod, running_sidecars, namespace, job_name, sidecar_name, action, res>>
counterVars ==
  <<SIDECAR_SHUTDOWNS, FAILED_SIDECAR_SHUTDOWNS, TOTAL_UNSUCCESSFUL_EVENT_POSTS,
    UNSUPPORTED_SIDECARS>>
taskVars == <<prom, notify_state, signal, scrape_floor, report>>
loopVars == <<remaining, locals, counterVars, podlog, pre, prePod, info_published>>
vars == <<pc, remaining, locals, counterVars, podlog, pre, prePod, main_ret,
          info_published, taskVars>>

\* The label values of a counter vector: container, job_name, namespace
\* (prometheus.rs:11, :17, :28).
Labels == ContainerNames \X {"job-7"} \X {"ns", "default"}

\* The four counters, read together.
Counters ==
  [success |-> SIDECAR_SHUTDOWNS,
   failed |-> FAILED_SIDECAR_SHUTDOWNS,
   unsupported |-> UNSUPPORTED_SIDECARS,
   event_posts |-> TOTAL_UNSUCCESSFUL_EVENT_POSTS]

\* IntCounterVec::with_label_values(l).inc()
Inc(counter, l) == [counter EXCEPT ![l] = @ + 1]

\* What the loop did for one sidecar: the lookup, the transport attempts
\* (each with the cluster's answer), the result of the dispatch, the audit
\* events handed to the recorder (posted: the publish succeeded), and
\* whether the loop body was left.
Entry(name, found) ==
  [name |-> name, found |-> found, attempts |-> <<>>, returned |-> FALSE,
   res |-> Ok, events |-> <<>>, done |-> ~found]

LastEntry == podlog[Len(podlog)]
SetLast(e) == [podlog EXCEPT ![Len(podlog)] = e]

\* events.rs, Recorder::warn / Recorder::info: one publish of an event of
\* the kind, with the message, on the pod; posted is the cluster's answer.
Event(kind, message, posted) == [kind |-> kind, message |-> message, posted |-> posted]

\* No request is in service; no response has been given.
NoScrape == [some |-> FALSE, value |-> <<>>]

\* main.rs:24-52: the state when the while loop is reached, with a stream
\* that will deliver n container statuses.
InitWith(n) ==
  /\ pc = "watch"
  /\ remaining = n
  /\ pod = NoPod
  /\ running_sidecars = <<>>
  /\ namespace = None
  /\ job_name = None
  /\ sidecar_name = None
  /\ action = NoAction
  /\ res = Ok
  /\ SIDECAR_SHUTDOWNS = [l \in Labels |-> 0]
  /\ FAILED_SIDECAR_SHUTDOWNS = [l \in Labels |-> 0]
  /\ UNSUPPORTED_SIDECARS = [l \in Labels |-> 0]
  /\ TOTAL_UNSUCCESSFUL_EVENT_POSTS = 0
  /\ podlog = <<>>
  /\ pre = Counters
  /\ prePod = Counters
  /\ main_ret = None
  /\ info_published = 0
  /\ prom = "spawned"
  /\ notify_state = "EMPTY"
  /\ signal = FALSE
  /\ scrape_floor = NoScrape
  /\ report = NoScrape

Init == InitWith(MaxStatuses)

\* main.rs:59-62 and :76-82: the for loop is entered when some sidecar is
\* running and the job name can be derived; otherwise `continue`.
EntersFor_no_empty_check(p) == pod_job_name(p).ok
EntersFor_no_job_check(p) == running_of(p) # <<>>
EntersFor(p) == running_of(p) # <<>> /\ pod_job_name(p).ok

\* The loop body with the error of sidecars() returned from main by `?`.
PodApplied_sidecars_error_returned(p) ==
  /\ pc = "watch"
  /\ Len(p.container_statuses) <= remaining
  /\ remaining' = remaining - Len(p.container_statuses)
  /\ pod' = p
  /\ podlog' = <<>>
  /\ prePod' = Counters
  /\ pre' = Counters
  /\ sidecar_name' = None
  /\ action' = NoAction
  /\ res' = Ok
  /\ UNCHANGED counterVars
  /\ namespace' = IF running_of(p) = <<>> THEN None ELSE pod_namespace(p)
  /\ IF ~sidecars(p).ok
     THEN /\ pc' = "failed"
          /\ main_ret' = "Err: sidecars"
          /\ running_sidecars' = <<>>
          /\ job_name' = None
     ELSE /\ main_ret' = main_ret
          /\ IF EntersFor(p)
             THEN /\ pc' = "for"
                  /\ running_sidecars' = running_of(p)
                  /\ job_name' = pod_job_name(p).value
             ELSE /\ pc' = "watch"
                  /\ running_sidecars' = <<>>
                  /\ job_name' = None
  /\ UNCHANGED <<info_published, taskVars>>

\* main.rs:52-82: the stream yields a snapshot; the loop body up to the for
\* loop.  The namespace is derived once something is running (:64-67), the
\* job name after it (:76).
PodApplied(p) ==
  /\ pc = "watch"
  /\ Len(p.container_statuses) <= remaining
  /\ remaining' = remaining - Len(p.container_statuses)
  /\ pod' = p
  /\ podlog' = <<>>
  /\ prePod' = Counters
  /\ pre' = Counters
  /\ sidecar_name' = None
  /\ action' = NoAction
  /\ res' = Ok
  /\ UNCHANGED counterVars
  /\ namespace' = IF running_of(p) = <<>> THEN None ELSE pod_namespace(p)
  /\ IF EntersFor(p)
     THEN /\ pc' = "for"
          /\ running_sidecars' = running_of(p)
          /\ job_name' = pod_job_name(p).value
     ELSE /\ pc' = "watch"
          /\ running_sidecars' = <<>>
          /\ job_name' = None
  /\ UNCHANGED <<main_ret, info_published, taskVars>>

\* main.rs:52, :119: the stream ends (try_next yields None).
StreamEnd ==
  /\ pc = "watch"
  /\ pc' = "ended"
  /\ UNCHANGED <<remaining, locals, counterVars, podlog, pre, prePod>>
  /\ UNCHANGED <<main_ret, info_published, taskVars>>

\* main.rs:52: the stream yields an error, which `?` returns from main.
StreamError ==
  /\ pc = "watch"
  /\ pc' = "failed"
  /\ UNCHANGED <<remaining, locals, counterVars, podlog, pre, prePod>>
  /\ main_ret' = "Err: watch stream"
  /\ UNCHANGED <<info_published, taskVars>>

\* main.rs:84, :116-117: the for loop has no sidecar left; the body of the
\* while loop ends, its locals are dropped, and the task is back at the stream.
ForDone ==
  /\ pc = "for"
  /\ running_sidecars = <<>>
  /\ pc' = "watch"
  /\ pod' = NoPod
  /\ namespace' = None
  /\ job_name' = None
  /\ sidecar_name' = None
  /\ action' = NoAction
  /\ res' = Ok
  /\ podlog' = <<>>
  /\ pre' = Counters
  /\ prePod' = Counters
  /\ UNCHANGED <<remaining, running_sidecars, counterVars>>
  /\ UNCHANGED <<main_ret, info_published, taskVars>>

\* main.rs:84-93: the next sidecar is taken and looked up in the table;
\* `continue` when the table has no action for it (:89-92).
ForNext ==
  /\ pc = "for"
  /\ running_sidecars # <<>>
  /\ LET name == Head(running_sidecars).name
         found == actions_get(name)
     IN  /\ sidecar_name' = name
         /\ running_sidecars' = Tail(running_sidecars)
         /\ podlog' = Append(podlog, Entry(name, found.some))
         /\ action' = found.value
         /\ pc' = IF found.some THEN "shutdown" ELSE "for"
  /\ pre' = Counters
  /\ UNCHANGED <<remaining, pod, namespace, job_name, res, counterVars, prePod>>
  /\ UNCHANGED <<main_ret, info_published, taskVars>>

\* api.rs:68-76, :100: what a dispatch leaves behind when it returns.  The
\* connection is handed to a task of its own by tokio::spawn (:72) once the
\* handshake has succeeded; the JoinHandle is dropped, so nothing in
\* shutdown_portforward waits for that task.  The stream of the tunnel was
\* moved into the connection (:71): it is open as long as the task runs, and
\* is dropped with the function's locals when there is no such task.
driver_at_return(a, env) ==
  IF a.action_type = "Portforward" /\ env.portforward /\ env.handshake
  THEN "running" ELSE "none"
tunnel_at_return(a, env) ==
  IF a.action_type = "Portforward" /\ env.portforward
  THEN IF env.handshake THEN "open" ELSE "closed"
  ELSE "none"

\* The dispatch started and left running, the loop going on at once.
Shutdown_detached(env) ==
  /\ pc = "shutdown"
  /\ pc' = "for"
  /\ UNCHANGED <<remaining, locals, podlog, counterVars, pre, prePod>>
  /\ UNCHANGED <<main_ret, info_published, taskVars>>

\* main.rs:94: api.shutdown(action, &pod_name, &sidecar_name).await, against
\* a cluster that answers env.
Shutdown(env) ==
  /\ pc = "shutdown"
  /\ res' = shutdown(action, env)
  /\ podlog' = SetLast([LastEntry EXCEPT
                          !.attempts = Append(@, [transport |-> action.action_type,
                                                   namespace |-> namespace,
                                                   pod |-> pod.name,
                                                   container |-> sidecar_name,
                                                   env |-> env,
                                                   tunnel |-> tunnel_at_return(action, env),
                                                   driver |-> driver_at_return(action, env)]),
                          !.returned = TRUE,
                          !.res = shutdown(action, env)])
  /\ pc' = "result"
  /\ UNCHANGED <<remaining, pod, running_sidecars, namespace, job_name, sidecar_name,
                 action, counterVars, pre, prePod>>
  /\ UNCHANGED <<main_ret, info_published, taskVars>>

\* The failure report preceded by one more try of a dispatch that failed.
ReportFailure_retrying(posted) ==
  /\ pc = "result"
  /\ ~res.ok
  /\ IF Len(LastEntry.attempts) < 2
     THEN /\ pc' = "shutdown"
          /\ UNCHANGED <<podlog, counterVars>>
     ELSE /\ pc' = "for"
          /\ podlog' = SetLast([LastEntry EXCEPT
                                  !.events = Append(@, Event("Warning",
                                              <<"Unsuccessfully shut down container",
                                                sidecar_name, res.err>>, posted)),
                                  !.done = TRUE])
          /\ TOTAL_UNSUCCESSFUL_EVENT_POSTS' =
               IF posted THEN TOTAL_UNSUCCESSFUL_EVENT_POSTS
               ELSE TOTAL_UNSUCCESSFUL_EVENT_POSTS + 1
          /\ FAILED_SIDECAR_SHUTDOWNS' =
               Inc(FAILED_SIDECAR_SHUTDOWNS, <<sidecar_name, job_name, namespace>>)
          /\ UNCHANGED <<SIDECAR_SHUTDOWNS, UNSUPPORTED_SIDECARS>>
  /\ UNCHANGED <<remaining, locals, pre, prePod, main_ret, info_published, taskVars>>

\* The failure report without the count of the failed publish (:102).
ReportFailure_publish_uncounted(posted) ==
  /\ pc = "result"
  /\ ~res.ok
  /\ podlog' = SetLast([LastEntry EXCEPT
                          !.events = Append(@, Event("Warning",
                                      <<"Unsuccessfully shut down container",
                                        sidecar_name, res.err>>, posted)),
                          !.done = TRUE])
  /\ FAILED_SIDECAR_SHUTDOWNS' =
       Inc(FAILED_SIDECAR_SHUTDOWNS, <<sidecar_name, job_name, namespace>>)
  /\ pc' = "for"
  /\ UNCHANGED <<remaining, locals, SIDECAR_SHUTDOWNS, UNSUPPORTED_SIDECARS,
                 TOTAL_UNSUCCESSFUL_EVENT_POSTS, pre, prePod>>
  /\ UNCHANGED <<main_ret, info_published, taskVars>>

\* main.rs:95-108: the dispatch returned an error.
ReportFailure(posted) ==
  /\ pc = "result"
  /\ ~res.ok
  /\ podlog' = SetLast([LastEntry EXCEPT
                          !.events = Append(@, Event("Warning",
                                      <<"Unsuccessfully shut down container",
                                        sidecar_name, res.err>>, posted)),
                          !.done = TRUE])
  /\ TOTAL_UNSUCCESSFUL_EVENT_POSTS' =
       IF posted THEN TOTAL_UNSUCCESSFUL_EVENT_POSTS
       ELSE TOTAL_UNSUCCESSFUL_EVENT_POSTS + 1
  /\ FAILED_SIDECAR_SHUTDOWNS' =
       Inc(FAILED_SIDECAR_SHUTDOWNS, <<sidecar_name, job_name, namespace>>)
  /\ pc' = "for"
  /\ UNCHANGED <<remaining, locals, SIDECAR_SHUTDOWNS, UNSUPPORTED_SIDECARS, pre, prePod>>
  /\ UNCHANGED <<main_ret, info_published, taskVars>>

\* The success report counting the shutdown whether or not the event was
\* published.
ReportSuccess_counts_unposted(posted) ==
  /\ pc = "result"
  /\ res.ok
  /\ podlog' = SetLast([LastEntry EXCEPT
                          !.events = Append(@, Event("Normal",
                                      <<"Shut down container", sidecar_name, "">>,
                                      posted)),
                          !.done = TRUE])
  /\ SIDECAR_SHUTDOWNS' =
       Inc(SIDECAR_SHUTDOWNS, <<sidecar_name, job_name, namespace>>)
  /\ pc' = "for"
  /\ UNCHANGED <<remaining, locals, FAILED_SIDECAR_SHUTDOWNS,
                 TOTAL_UNSUCCESSFUL_EVENT_POSTS, UNSUPPORTED_SIDECARS, pre, prePod>>
  /\ info_published' = IF posted THEN info_published + 1 ELSE info_published
  /\ UNCHANGED <<main_ret, taskVars>>

\* The success report with the publish error returned from main by `?`
\* instead of `continue` (:110-111).
ReportSuccess_publish_error_returned(posted) ==
  /\ pc = "result"
  /\ res.ok
  /\ podlog' = SetLast([LastEntry EXCEPT
                          !.events = Append(@, Event("Normal",
                                      <<"Shut down container", sidecar_name, "">>,
                                      posted)),
                          !.done = TRUE])
  /\ SIDECAR_SHUTDOWNS' =
       IF posted
       THEN Inc(SIDECAR_SHUTDOWNS, <<sidecar_name, job_name, namespace>>)
       ELSE SIDECAR_SHUTDOWNS
  /\ pc' = IF posted THEN "for" ELSE "failed"
  /\ main_ret' = IF posted THEN main_ret ELSE "Err: publish"
  /\ UNCHANGED <<remaining, locals, FAILED_SIDECAR_SHUTDOWNS,
                 TOTAL_UNSUCCESSFUL_EVENT_POSTS, UNSUPPORTED_SIDECARS, pre, prePod>>
  /\ info_published' = IF posted THEN info_published + 1 ELSE info_published
  /\ UNCHANGED taskVars

\* main.rs:109-115: the dispatch returned Ok.  `continue` when the event
\* could not be published (:110-111), before the counter is touched.
ReportSuccess(posted) ==
  /\ pc = "result"
  /\ res.ok
  /\ podlog' = SetLast([LastEntry EXCEPT
                          !.events = Append(@, Event("Normal",
                                      <<"Shut down container", sidecar_name, "">>,
                                      posted)),
                          !.done = TRUE])
  /\ SIDECAR_SHUTDOWNS' =
       IF posted
       THEN Inc(SIDECAR_SHUTDOWNS, <<sidecar_name, job_name, namespace>>)
       ELSE SIDECAR_SHUTDOWNS
  /\ pc' = "for"
  /\ UNCHANGED <<remaining, locals, FAILED_SIDECAR_SHUTDOWNS,
                 TOTAL_UNSUCCESSFUL_EVENT_POSTS, UNSUPPORTED_SIDECARS, pre, prePod>>
  /\ info_published' = IF posted THEN info_published + 1 ELSE info_published
  /\ UNCHANGED <<main_ret, taskVars>>

Next ==
  \/ \E p \in PodsWith(remaining) : PodApplied(p)
  \/ StreamEnd
  \/ StreamError
  \/ ForDone
  \/ ForNext
  \/ \E env \in EnvsFor(action) : Shutdown(env)
  \/ \E posted \in BOOLEAN : ReportFailure(posted)
  \/ \E posted \in BOOLEAN : ReportSuccess(posted)

Spec == Init /\ [][Next]_vars

\* ------------------------------------------------- the tasks beside the loop
\* main.rs:119-120: the loop was left because the stream ended;
\* shutdown.notify_one().  tokio's Notify wakes the waiter when there is one
\* and stores one permit when there is none.
NotifyOne_without_permit ==
  /\ pc = "ended"
  /\ pc' = "join"
  /\ IF notify_state = "WAITING"
     THEN notify_state' = "EMPTY" /\ signal' = TRUE
     ELSE UNCHANGED <<notify_state, signal>>
  /\ UNCHANGED <<loopVars, main_ret, prom, scrape_floor, report>>

NotifyOne ==
  /\ pc = "ended"
  /\ pc' = "join"
  /\ IF notify_state = "WAITING"
     THEN notify_state' = "EMPTY" /\ signal' = TRUE
     ELSE notify_state' = "NOTIFIED" /\ signal' = signal
  /\ UNCHANGED <<loopVars, main_ret, prom, scrape_floor, report>>

\* main.rs:121-122: prom.await?; Ok(()).  The metrics task has finished.
JoinProm ==
  /\ pc = "join"
  /\ prom = "returned"
  /\ pc' = "exited"
  /\ main_ret' = "Ok"
  /\ UNCHANGED <<loopVars, taskVars>>

\* main.rs:23, :52: main has returned the error of the stream; the runtime
\* of #[tokio::main] is dropped and with it every task still running.
ProcessExit ==
  /\ pc = "failed"
  /\ pc' = "exited"
  /\ prom' = IF prom = "returned" THEN prom ELSE "cancelled"
  /\ scrape_floor' = NoScrape
  /\ UNCHANGED <<loopVars, main_ret, notify_state, signal, report>>

\* main.rs:48-50, prometheus.rs:48-59: the metrics task runs: the server is
\* bound and serves, with_graceful_shutdown polls shutdown_clone.notified()
\* for the first time.  A stored permit completes it at once; otherwise the
\* task is registered as the waiter.
MetricsServe ==
  /\ prom = "spawned"
  /\ pc # "exited"
  /\ prom' = "serving"
  /\ IF notify_state = "NOTIFIED"
     THEN notify_state' = "EMPTY" /\ signal' = TRUE
     ELSE notify_state' = "WAITING" /\ signal' = signal
  /\ UNCHANGED <<pc, loopVars, main_ret, scrape_floor, report>>

\* prometheus.rs:56-64: the shutdown future has completed, the requests in
\* service are finished; serve returns (Ok or Err, both only logged, :60-63)
\* and prometheus_server returns Ok(()) (:64).
MetricsStop(served) ==
  /\ prom = "serving"
  /\ signal
  /\ scrape_floor = NoScrape
  /\ prom' = "returned"
  /\ UNCHANGED <<pc, loopVars, main_ret, notify_state, signal, scrape_floor, report>>

\* prometheus.rs:34: a request arrives at the serving task.  A server that
\* was told to shut down accepts no new connection.
ScrapeStart ==
  /\ prom = "serving"
  /\ ~signal
  /\ scrape_floor = NoScrape
  /\ scrape_floor' = [some |-> TRUE, value |-> Counters]
  /\ UNCHANGED <<pc, loopVars, main_ret, prom, notify_state, signal, report>>

\* A response that repeats the previous one when there is one.
metric_service_cached ==
  /\ prom = "serving"
  /\ scrape_floor.some
  /\ report' = IF report.some THEN report ELSE [some |-> TRUE, value |-> Counters]
  /\ scrape_floor' = NoScrape
  /\ UNCHANGED <<pc, loopVars, main_ret, prom, notify_state, signal>>

\* prometheus.rs:34-43, metric_service: prometheus::gather() reads the
\* counters, the response carries their values.
metric_service ==
  /\ prom = "serving"
  /\ scrape_floor.some
  /\ report' = [some |-> TRUE, value |-> Counters]
  /\ scrape_floor' = NoScrape
  /\ UNCHANGED <<pc, loopVars, main_ret, prom, notify_state, signal>>

\* api.rs:72-76: the connection of a dispatch that has returned completes;
\* its task ends and the stream of the tunnel is dropped with it.
DriverEnd(i) ==
  /\ podlog[i].attempts # <<>>
  /\ podlog[i].attempts[1].driver = "running"
  /\ podlog' = [podlog EXCEPT ![i].attempts[1].driver = "finished",
                              ![i].attempts[1].tunnel = "closed"]
  /\ UNCHANGED <<pc, remaining, locals, counterVars, pre, prePod, info_published,
                 main_ret, taskVars>>

NextTasks ==
  \/ Next
  \/ NotifyOne
  \/ JoinProm
  \/ ProcessExit
  \/ MetricsServe
  \/ \E served \in {"Ok", "Err"} : MetricsStop(served)
  \/ ScrapeStart
  \/ metric_service
  \/ \E i \in DOMAIN podlog : DriverEnd(i)

InitTasks == InitWith(MaxTaskStatuses)

SpecTasks == InitTasks /\ [][NextTasks]_vars

\* The runtime runs every task that is ready: the metrics task is polled
\* once spawned and again once its shutdown future has completed.
FairTasks ==
  /\ SpecTasks
  /\ WF_vars(MetricsServe)
  /\ WF_vars(\E served \in {"Ok", "Err"} : MetricsStop(served))
  /\ WF_vars(metric_service)

\* ------------------------------------------------------- reading the state
\* The loop body has been left for the sidecar taken last.
IterDone == podlog # <<>> /\ LastEntry.done

\* The for loop of the current pod has handled every sidecar.
PodDone == pc = "for" /\ running_sidecars = <<>>

\* The labels of the counters of the sidecar taken last.
CurLabel == <<sidecar_name, job_name, namespace>>

\* The one transport attempt of the sidecar taken last.
LastAttempt == LastEntry.attempts[1]

\* The tunnel answered the request with status 200.
HttpOk(env) == env.portforward /\ env.handshake /\ env.send /\ env.status = 200

\* The sidecar taken last was reported as a success: one informational
\* event, the failure counter untouched.
ReportedSuccess ==
  /\ Len(LastEntry.events) = 1
  /\ LastEntry.events[1].kind = "Normal"
  /\ FAILED_SIDECAR_SHUTDOWNS = pre.failed

\* The sidecar taken last was reported as a failure: one warning event
\* with the detail, the failure counter of its labels one higher, the
\* success counter untouched.
ReportedFailure ==
  /\ Len(LastEntry.events) = 1
  /\ LastEntry.events[1].kind = "Warning"
  /\ LastEntry.events[1].message[3] # ""
  /\ FAILED_SIDECAR_SHUTDOWNS = Inc(pre.failed, CurLabel)
  /\ SIDECAR_SHUTDOWNS = pre.success

\* ------------------------------------------------------------------ claims
\* C1: a port-forward dispatch is reported as a success only when the HTTP
\* status is exactly 200; for every other status and for a tunnel, handshake
\* or send error it is reported as a failure (warning event with the detail,
\* failure counter +1, success counter unchanged).
C1_HttpReportedByStatus ==
  (IterDone /\ LastEntry.attempts # <<>> /\ LastAttempt.transport = "Portforward")
    => IF HttpOk(LastAttempt.env) THEN ReportedSuccess ELSE ReportedFailure

\* C2: an exec dispatch is reported as a failure when the exec call returns a
\* transport error, and as a success when it returns Ok, whatever the exit
\* status of the remote command.
C2_ExecReportedByTransport ==
  (IterDone /\ LastEntry.attempts # <<>> /\ LastAttempt.transport = "Exec")
    => IF LastAttempt.env.exec THEN ReportedSuccess ELSE ReportedFailure

\* C3: each running container whose name is no key of the action table raises
\* the unsupported-sidecars counter of (container, job name, namespace) by one.
C3_UnsupportedCounted ==
  (IterDone /\ LastEntry.name \notin DOMAIN actions)
    => UNSUPPORTED_SIDECARS = Inc(pre.unsupported, CurLabel)

\* C4: for a running container whose name is no key of the action table there
\* is no exec and no port-forward, no audit event, and the success and failure
\* counters are as they were when the container was taken.
C4_UnknownLeftAlone ==
  /\ \A i \in DOMAIN podlog :
       podlog[i].name \notin DOMAIN actions
         => podlog[i].attempts = <<>> /\ podlog[i].events = <<>>
  /\ (podlog # <<>> /\ LastEntry.name \notin DOMAIN actions)
       => /\ pc = "for"
          /\ SIDECAR_SHUTDOWNS = pre.success
          /\ FAILED_SIDECAR_SHUTDOWNS = pre.failed

C4_Witness ==
  /\ Len(podlog) = 2
  /\ podlog[1].name = "istio-proxy"
  /\ podlog[2].name = "unknown-sidecar"
  /\ SIDECAR_SHUTDOWNS # [l \in Labels |-> 0]

\* C5: a dispatch that returned Ok gives exactly one informational event
\* publish and exactly one increment of the success counter of (container,
\* job name, namespace), also when the publish fails.
C5_SuccessCounted ==
  (IterDone /\ LastEntry.returned /\ LastEntry.res.ok)
    => /\ Len(LastEntry.events) = 1
       /\ LastEntry.events[1].kind = "Normal"
       /\ SIDECAR_SHUTDOWNS = Inc(pre.success, CurLabel)

\* C6: a dispatch that returned an error gives exactly one warning event
\* publish and exactly one increment of the failure counter of (container,
\* job name, namespace); the failed-event-post counter goes up by one exactly
\* when that publish fails; the success counter is unchanged.
C6_FailureCounted ==
  (IterDone /\ LastEntry.returned /\ ~LastEntry.res.ok)
    => /\ Len(LastEntry.events) = 1
       /\ LastEntry.events[1].kind = "Warning"
       /\ LastEntry.events[1].message = 
            <<"Unsuccessfully shut down container", LastEntry.name, LastEntry.res.err>>
       /\ FAILED_SIDECAR_SHUTDOWNS = Inc(pre.failed, CurLabel)
       /\ TOTAL_UNSUCCESSFUL_EVENT_POSTS =
            pre.event_posts + (IF LastEntry.events[1].posted THEN 0 ELSE 1)
       /\ SIDECAR_SHUTDOWNS = pre.success
       /\ UNSUPPORTED_SIDECARS = pre.unsupported

C6_Witness ==
  /\ IterDone
  /\ LastEntry.returned
  /\ ~LastEntry.res.ok
  /\ ~LastEntry.events[1].posted
  /\ pre.event_posts = 1

\* No container status of the snapshot is in the running state.
NoRunning(p) ==
  \A i \in DOMAIN p.container_statuses : p.container_statuses[i].state # "running"

\* The task is outside the for loop: at the stream, or past the while loop.
OutsideFor == pc \in {"watch", "ended", "failed"}

\* Nothing was done for the pod taken last: no lookup, no dispatch, no event
\* (podlog has no entry), no action held, and every counter as it was.
PodUntouched ==
  /\ podlog = <<>>
  /\ running_sidecars = <<>>
  /\ action = NoAction
  /\ Counters = prePod

\* The sidecars of the pod that the for loop has not taken yet.
RestOfPod == SubSeq(running_of(pod), Len(podlog) + 1, Len(running_of(pod)))

\* The sidecars are taken one by one in the order of the snapshot.
InExtractionOrder ==
  podlog # <<>> =>
    /\ pc \in {"for", "shutdown", "result"}
    /\ Len(podlog) <= Len(running_of(pod))
    /\ \A i \in DOMAIN podlog : podlog[i].name = running_of(pod)[i].name
    /\ \A i \in DOMAIN podlog : i < Len(podlog) => podlog[i].done
    /\ running_sidecars = RestOfPod

\* Some audit event of the current pod could not be published.
PublishFailed(i) == podlog[i].events # <<>> /\ ~podlog[i].events[1].posted

\* C7: for a snapshot with zero running containers there is no lookup, no
\* dispatch, no audit event and no counter increment, and the task is back at
\* the stream for the next snapshot.
C7_NothingRunningNothingDone ==
  (pod # NoPod /\ NoRunning(pod)) => OutsideFor /\ PodUntouched

C7_Witness ==
  /\ pod # NoPod
  /\ Len(pod.container_statuses) = 2
  /\ NoRunning(pod)
  /\ pod.job # None
  /\ pc = "watch"
  /\ FAILED_SIDECAR_SHUTDOWNS # [l \in Labels |-> 0]

\* C8: within one snapshot every running sidecar is processed exactly once in
\* extraction order, a failure for one does not stop the later ones, and with
\* two recognized sidecars, the first dispatch failing and the second
\* succeeding, the result is one increment of the failure counter followed by
\* one increment of the success counter.
C8_EachOnceInOrder ==
  /\ InExtractionOrder
  /\ PodDone => Len(podlog) = Len(running_of(pod)) /\ LastEntry.done
  /\ ( /\ PodDone
       /\ Len(podlog) = 2
       /\ podlog[1].returned /\ ~podlog[1].res.ok
       /\ podlog[2].returned /\ podlog[2].res.ok )
       => /\ pre.failed = Inc(prePod.failed, <<podlog[1].name, job_name, namespace>>)
          /\ pre.success = prePod.success
          /\ FAILED_SIDECAR_SHUTDOWNS = pre.failed
          /\ SIDECAR_SHUTDOWNS = Inc(pre.success, <<podlog[2].name, job_name, namespace>>)

\* C9: a failed publish of an audit event, informational or warning, never
\* ends the reconciliation loop: the task stays in the for loop with the
\* sidecars not yet taken, takes the next one (or leaves the for loop for the
\* stream when none is left), and goes on to the next snapshot.
C9_PublishFailureKeepsLoop ==
  /\ (\E i \in DOMAIN podlog : PublishFailed(i)) =>
       /\ pc \in {"for", "shutdown", "result"}
       /\ running_sidecars = RestOfPod
       /\ pc = "for" =>
            IF running_sidecars # <<>> THEN ENABLED ForNext ELSE ENABLED ForDone
  /\ pc = "failed" => podlog = <<>>

C9_Witness ==
  /\ Len(podlog) = 2
  /\ PublishFailed(1)
  /\ podlog[1].events[1].kind = "Normal"
  /\ podlog[2].done
  /\ prePod.event_posts = 1

\* C10: when the job name of a pod with running containers cannot be derived
\* the pod is skipped: no lookup, no dispatch, no audit event and no counter
\* increment for any of its containers, and the task is back at the stream.
C10_NoJobNameSkipsPod ==
  (pod # NoPod /\ running_of(pod) # <<>> /\ ~pod_job_name(pod).ok)
    => OutsideFor /\ PodUntouched

C10_Witness ==
  /\ pod # NoPod
  /\ Len(running_of(pod)) = 2
  /\ ~pod_job_name(pod).ok
  /\ pc = "watch"
  /\ SIDECAR_SHUTDOWNS # [l \in Labels |-> 0]

\* C13: there are no retries: for each running recognized sidecar of a
\* delivered snapshot at most one transport attempt and at most one audit
\* event publish are made, whatever their outcomes; each running sidecar of
\* the snapshot is taken once, so another attempt needs another snapshot.
C13_NoRetries ==
  /\ Len(podlog) <= Len(running_of(pod))
  /\ \A i \in DOMAIN podlog :
       /\ podlog[i].name = running_of(pod)[i].name
       /\ Len(podlog[i].attempts) <= 1
       /\ Len(podlog[i].events) <= 1
       /\ podlog[i].events # <<>> => Len(podlog[i].attempts) = 1

C13_Witness ==
  /\ Len(podlog) = 2
  /\ podlog[1].name = podlog[2].name
  /\ podlog[1].returned /\ ~podlog[1].res.ok
  /\ PublishFailed(1)
  /\ podlog[2].done
  /\ Len(podlog[2].attempts) = 1

\* ------------------------------------------------ claims about the tasks
\* shutdown.notify_one() has been called.
Raised == signal \/ notify_state = "NOTIFIED"

\* C11: whenever the reconciliation loop is left, by the end of the stream or
\* by its error, the shutdown signal of the metrics task is raised and the
\* process waits for that task to finish before it exits.
C11_ExitAfterMetricsShutdown ==
  pc = "exited" => Raised /\ prom = "returned"

\* C12: once shutdown.notify_one() has been called the metrics task
\* eventually returns, without error, whether the call came before or after
\* the server started to wait for it; the task does not return before it.
C12_NotifiedServerStops ==
  /\ (pc = "join") ~> (prom = "returned")
  /\ [](prom = "returned" => signal)
  /\ [][prom = "serving" /\ prom' # "serving" => signal \/ pc = "failed"]_vars

\* The notification is raised before the metrics task has run at all.
C12_Witness ==
  /\ pc = "join"
  /\ prom = "spawned"
  /\ notify_state = "NOTIFIED"
  /\ ~signal

\* C14: every port-forward tunnel opened by a dispatch, and its connection
\* driver task, is released before the dispatch returns, on every exit path:
\* no tunnel is open and no driver is running once the dispatch has returned.
C14_ReleasedAtReturn ==
  \A i \in DOMAIN podlog :
    podlog[i].returned =>
      \A k \in DOMAIN podlog[i].attempts :
        /\ podlog[i].attempts[k].tunnel # "open"
        /\ podlog[i].attempts[k].driver # "running"

\* Every counter of reading a is at least its value in reading b.
CountersAtLeast(a, b) ==
  /\ \A l \in Labels : /\ a.success[l] >= b.success[l]
                       /\ a.failed[l] >= b.failed[l]
                       /\ a.unsupported[l] >= b.unsupported[l]
  /\ a.event_posts >= b.event_posts

\* The step in which a metrics read that was in progress answers.
ReadEnds == scrape_floor.some /\ ~scrape_floor'.some /\ prom' = "serving"

\* C15: the four counters never decrease, whichever task takes the step; a
\* metrics read reports, for every counter, at least the increments that
\* were complete when the read started, and never less than the read before.
C15_CountersMonotone ==
  [][/\ CountersAtLeast(Counters', Counters)
     /\ report' # report => ReadEnds
     /\ ReadEnds =>
          /\ report'.some
          /\ CountersAtLeast(report'.value, scrape_floor.value)
          /\ report.some => CountersAtLeast(report'.value, report.value)]_vars

C15_Witness ==
  /\ report.some
  /\ scrape_floor.some
  /\ report.value.event_posts = 0
  /\ scrape_floor.value.event_posts = 1
  /\ \E l \in Labels : /\ report.value.failed[l] = 0
                       /\ scrape_floor.value.failed[l] = 1

\* C16: every failed audit-event publish, of an informational event as of a
\* warning event, is counted by exactly one increment of the failed-event-post
\* counter: while a pod is processed the counter has grown, since the pod
\* was taken, by the number of its publishes that failed.
C16_FailedPublishCounted ==
  podlog # <<>> =>
    TOTAL_UNSUCCESSFUL_EVENT_POSTS =
      prePod.event_posts + Cardinality({i \in DOMAIN podlog : PublishFailed(i)})

\* Nothing of sidecar i of the pod is left to wait for: its iteration is
\* over and, when it had an action, the dispatch returned and one event
\* publish was made.
Settled(i) ==
  /\ podlog[i].done
  /\ podlog[i].found => podlog[i].returned /\ Len(podlog[i].events) = 1

\* C17: the reconciliation task never has two operations in flight: every
\* sidecar before the current one is settled, the next sidecar is looked up
\* only when the current one is settled, the one dispatch or publish in
\* progress belongs to the last sidecar looked up, and a snapshot is taken
\* from the stream only when no sidecar of the previous one is left.
C17_OneOperationAtATime ==
  /\ \A i \in DOMAIN podlog : i < Len(podlog) => Settled(i)
  /\ pc = "for" => podlog = <<>> \/ Settled(Len(podlog))
  /\ pc \in {"shutdown", "result"} =>
       /\ podlog # <<>>
       /\ ~LastEntry.done
       /\ LastEntry.events = <<>>
       /\ LastEntry.returned <=> pc = "result"
  /\ pc \in {"watch", "ended", "failed", "join", "exited"} =>
       running_sidecars = <<>> /\ podlog = <<>>

C17_Witness ==
  /\ pc = "shutdown"
  /\ Len(podlog) = 2
  /\ podlog[1].found
  /\ Settled(1)
  /\ running_sidecars # <<>>

\* C18: a pod snapshot without a namespace is dispatched to in the namespace
\* "default" and every counter increment made for it carries the namespace
\* label "default"; a namespace that is present is used unchanged for both.
C18_NamespaceDefaulted ==
  podlog # <<>> =>
    LET ns == IF pod.namespace = None THEN "default" ELSE pod.namespace
    IN  /\ \A i \in DOMAIN podlog : \A k \in DOMAIN podlog[i].attempts :
             podlog[i].attempts[k].namespace = ns
        /\ \A l \in Labels :
             l[3] # ns =>
               /\ SIDECAR_SHUTDOWNS[l] = prePod.success[l]
               /\ FAILED_SIDECAR_SHUTDOWNS[l] = prePod.failed[l]
               /\ UNSUPPORTED_SIDECARS[l] = prePod.unsupported[l]

C18_Witness ==
  /\ pod.namespace = None
  /\ Len(podlog) = 2
  /\ podlog[1].attempts # <<>>
  /\ podlog[2].attempts # <<>>
  /\ podlog[1].attempts[1].namespace = "default"
  /\ podlog[2].attempts[1].namespace = "default"
  /\ \E l \in Labels : l[3] = "default" /\ SIDECAR_SHUTDOWNS[l] > prePod.success[l]
  /\ \E l \in Labels : l[3] = "default" /\ FAILED_SIDECAR_SHUTDOWNS[l] > prePod.failed[l]

\* The total of a labelled counter over the label sets S.
RECURSIVE Total(_, _)
Total(counter, S) ==
  IF S = {} THEN 0
  ELSE LET l == CHOOSE x \in S : TRUE
       IN  counter[l] + Total(counter, S \ {l})

\* C19: the success counter is incremented only after the dispatch returned
\* Ok and the informational event was published: its total never exceeds
\* the number of informational events published, and one sidecar occurrence
\* increments at most one of the success and failure counters, by one.
C19_SuccessNeedsPublishedEvent ==
  /\ Total(SIDECAR_SHUTDOWNS, Labels) <= info_published
  /\ SIDECAR_SHUTDOWNS # pre.success =>
       /\ IterDone
       /\ LastEntry.returned /\ LastEntry.res.ok
       /\ LastEntry.events[1].kind = "Normal"
       /\ LastEntry.events[1].posted
       /\ FAILED_SIDECAR_SHUTDOWNS = pre.failed
  /\ Total(SIDECAR_SHUTDOWNS, Labels) + Total(FAILED_SIDECAR_SHUTDOWNS, Labels)
       <= Total(pre.success, Labels) + Total(pre.failed, Labels) + 1

C19_Witness ==
  /\ Len(podlog) = 2
  /\ podlog[1].res.ok /\ podlog[1].events # <<>> /\ podlog[1].events[1].posted
  /\ IterDone
  /\ LastEntry.returned /\ LastEntry.res.ok
  /\ PublishFailed(2)
  /\ info_published = 1
  /\ Total(SIDECAR_SHUTDOWNS, Labels) = 1
  /\ Counters = pre

\* C20: a pod snapshot whose running sidecars cannot be extracted is treated
\* like one with nothing running: the error does not end main, nothing is
\* dispatched, published or counted for the pod, and the loop is back at the
\* stream (which may then end or fail on its own).
C20_ExtractionErrorSkipsPod ==
  (pod # NoPod /\ ~sidecars(pod).ok) =>
    /\ OutsideFor
    /\ PodUntouched
    /\ main_ret \in {None, "Err: watch stream"}
    /\ pc = "failed" <=> main_ret = "Err: watch stream"

C20_Witness ==
  /\ pod # NoPod
  /\ ~sidecars(pod).ok
  /\ pc = "watch"
  /\ info_published = 1
  /\ remaining > 0

====
